---- MODULE Spec2Model ----
(***************************************************************************)
(* Model of the document-session proxy of genai-frontend: the Express      *)
(* server of src/server.js with its in-memory session cache (pdfCache),    *)
(* the /hackrx/upload and /hackrx/query handlers, the two ML API client    *)
(* functions and the answer normalisation of the query handler.            *)
(*                                                                         *)
(* Node runs every handler to its next await without interleaving, so one  *)
(* action is one such run: the arrival of a request up to the external     *)
(* call (or to the response, when it is rejected locally), and the         *)
(* resumption of the handler with the outcome of the external call up to   *)
(* the response.                                                           *)
(*                                                                         *)
(* Spec is the server with an ML API that may answer anything.  SpecStub   *)
(* is the server with an ML API that answers queries as a function of the  *)
(* form it is sent.  SpecBatch is analyzeDocument of the browser's         *)
(* apiService (src/src/services/api.ts) against the server's answers.      *)
(***************************************************************************)
EXTENDS Integers, Sequences, FiniteSets, Bags, TLC

VARIABLES
    pdfCache,   \* server.js:14  the session cache, identifier -> record
    disk,       \* the paths of the files present in ./uploads
    indexing,   \* the upload requests awaiting the index call
    querying,   \* the query requests awaiting the query call (a bag)
    seq,        \* the number of files multer has staged so far
    now,        \* the time new Date() returned last (0: not read yet)
    sent,       \* the response the running handler has written, until the
                \* run ends (NoResponse otherwise)
    indexed,    \* history: identifiers a successful index call has carried
    returned,   \* history: identifiers a 200 upload response has carried
    log,        \* history: the outcome of each numbered query request
    batch,      \* api.ts:102-141  the run of analyzeDocument in the browser
    handlers,   \* the handler runs of the server, statement by statement
    ui          \* the state of the ChatInterface component in the browser

vars == <<pdfCache, disk, indexing, querying, seq, now, sent, indexed, returned,
          log, batch, handlers, ui>>

(***************************************************************************)
(* Bounds of the model.                                                    *)
(***************************************************************************)
MaxPending == 2     \* requests awaiting the ML API at the same time
MaxUploads == 2     \* files staged over the run
MaxQueries == 3     \* numbered query requests over a run against the stub
MaxQuestions == 3   \* questions handed to analyzeDocument
MaxHandlers == 2    \* requests whose handlers are followed statement by statement
MaxSends == 3       \* requests that the events of the user start in the chat component

(***************************************************************************)
(* JavaScript values whose type varies (the bodies the ML API returns).    *)
(* A property that is absent reads as undefined.                           *)
(***************************************************************************)
Undef == [t |-> "undefined"]
Null == [t |-> "null"]
Str(s) == [t |-> "string", v |-> s]
\* an object with the properties the handlers read; an absent one is Undef
Obj(a, r) == [t |-> "object", answer |-> a, response |-> r]

\* JavaScript truthiness of a value
Truthy(v) ==
    CASE v.t = "undefined" -> FALSE
      [] v.t = "null" -> FALSE
      [] v.t = "string" -> v.v # ""
      [] OTHER -> TRUE

\* v.answer: undefined on a string, a TypeError (Throws) on null and undefined
CanRead(v) == v.t \notin {"undefined", "null"}
GetAnswer(v) == IF v.t = "object" THEN v.answer ELSE Undef
GetResponse(v) == IF v.t = "object" THEN v.response ELSE Undef

(***************************************************************************)
(* String functions of JavaScript and of the path module.                  *)
(***************************************************************************)
undefined == "<undefined>"    \* a form field or property that is missing

Upper == "ABCDEFGHIJKLMNOPQRSTUVWXYZ"
Lower == "abcdefghijklmnopqrstuvwxyz"

Char(s, i) == SubSeq(s, i, i)

\* the lower-case letter of each upper-case letter
LowerMap ==
    [c \in {Char(Upper, i) : i \in 1..Len(Upper)} |->
        Char(Lower, CHOOSE i \in 1..Len(Upper) : Char(Upper, i) = c)]

LowerChar(c) == IF c \in DOMAIN LowerMap THEN LowerMap[c] ELSE c

\* String.prototype.toLowerCase
RECURSIVE toLowerCase(_)
toLowerCase(s) ==
    IF s = "" THEN "" ELSE LowerChar(Char(s, 1)) \o toLowerCase(SubSeq(s, 2, Len(s)))

\* String.prototype.endsWith
endsWith(s, suffix) ==
    /\ Len(s) >= Len(suffix)
    /\ SubSeq(s, Len(s) - Len(suffix) + 1, Len(s)) = suffix

\* String.prototype.includes, which is what an unanchored literal regex tests
includes(s, pat) ==
    \E i \in 1..(Len(s) - Len(pat) + 1) : SubSeq(s, i, i + Len(pat) - 1) = pat

\* String.prototype.trim (the only white space of the model is the blank)
RECURSIVE trimStart(_)
trimStart(s) ==
    IF s # "" /\ Char(s, 1) = " " THEN trimStart(SubSeq(s, 2, Len(s))) ELSE s

RECURSIVE trimEnd(_)
trimEnd(s) ==
    IF s # "" /\ Char(s, Len(s)) = " " THEN trimEnd(SubSeq(s, 1, Len(s) - 1)) ELSE s

trim(s) == trimEnd(trimStart(s))

\* path.extname: from the last dot of the name on; "" when there is none or
\* when the only dot is the first character
extname(name) ==
    LET dots == {i \in 2..Len(name) : Char(name, i) = "."}
    IN  IF dots = {} THEN ""
        ELSE LET last == CHOOSE i \in dots : \A j \in dots : j <= i
             IN  SubSeq(name, last, Len(name))

\* !x for a form field: missing and empty are falsy
Falsy(s) == s = undefined \/ s = ""

(***************************************************************************)
(* Control flow of a function body: a value returned or an Error thrown.   *)
(***************************************************************************)
Return(v) == [threw |-> FALSE, value |-> v]
Throw(m) == [threw |-> TRUE, message |-> m]

(***************************************************************************)
(* Inputs of the model.                                                    *)
(***************************************************************************)
\* identifiers the ML API mints (opaque strings)
Ids == {"abc123", "doc2"}

\* server.js:67  limits.fileSize
fileSize == 10 * 1024 * 1024

\* the file part of an upload request
File(name, type, size) == [originalname |-> name, mimetype |-> type, size |-> size]

FileInputs ==
    {File("policy.pdf", "application/pdf", 2048),
     File("policy.pdf", "application/pdf", fileSize + 1),
     File("policy.pdf", "image/png", 2048),
     File("photo.png", "image/png", 2048),
     File("setup.exe", "application/x-msdownload", 2048),
     File("setup.exe", "application/x-msdownload", fileSize + 1)}

\* a multipart request without a file part: multer leaves req.file undefined
NoFile == [originalname |-> undefined, mimetype |-> undefined, size |-> 0]

\* the pdf_id and question fields of a query request
PdfIdInputs == Ids \cup {undefined, " ", "does-not-exist"}
QuestionInputs == {undefined, " ", " What is covered? "}

\* what axios.post resolves or rejects with for the index call: a 2xx body,
\* or an error with the transport text and, if the service sent one, the
\* error field of its body
IndexBody(pdf_id, chunks) == [t |-> "object", pdf_id |-> pdf_id, chunks |-> chunks]

IndexBodies ==
    {Null,                                   \* the JSON body null
     IndexBody(Undef, 1),                    \* {chunks:1}
     IndexBody(Str(""), 1),                  \* {pdf_id:"",chunks:1}
     IndexBody(Str("abc123"), 1),            \* {pdf_id:"abc123",chunks:1}
     IndexBody(Str("abc123"), 2),            \* {pdf_id:"abc123",chunks:2}
     IndexBody(Str("doc2"), 1)}              \* {pdf_id:"doc2",chunks:1}

IndexResponses ==
    [ok : {TRUE}, data : IndexBodies]
    \cup {[ok |-> FALSE, error |-> Str("index quota exceeded"),
           message |-> "Request failed with status code 500"],
          [ok |-> FALSE, error |-> Undef,
           message |-> "timeout of 120000ms exceeded"]}

\* the bodies of a 2xx answer to the query call
QueryBodies ==
    {Obj(Obj(Str("X"), Undef), Undef),       \* {answer:{answer:"X"}}
     Obj(Obj(Str(""), Undef), Undef),        \* {answer:{answer:""}}
     Obj(Obj(Undef, Undef), Undef),          \* {answer:{}}
     Obj(Obj(Str("X"), Undef), Str("Y")),    \* {answer:{answer:"X"},response:"Y"}
     Obj(Str("X"), Undef),                   \* {answer:"X"}
     Obj(Str(""), Undef),                    \* {answer:""}
     Obj(Str("X"), Str("Y")),                \* {answer:"X",response:"Y"}
     Obj(Undef, Str("X")),                   \* {response:"X"}
     Obj(Undef, Str("")),                    \* {response:""}
     Obj(Undef, Undef),                      \* {}
     Str("X"),                               \* a text body
     Str(""),                                \* an empty body
     Null}                                   \* the JSON body null

QueryResponses ==
    [ok : {TRUE}, data : QueryBodies]
    \cup {[ok |-> FALSE, error |-> Str("model overloaded"),
           message |-> "Request failed with status code 503"],
          [ok |-> FALSE, error |-> Undef,
           message |-> "timeout of 60000ms exceeded"]}

(***************************************************************************)
(* multer: the file filter and the disk storage (server.js:54-82).         *)
(***************************************************************************)
\* server.js:71  the alternatives of the regular expression allowedTypes
allowedTypes ==
    {"jpeg", "jpg", "png", "gif", "pdf", "txt", "doc", "docx", "xls", "xlsx",
     "ppt", "pptx"}

\* allowedTypes.test(s)
allowedTypesTest(s) == \E a \in allowedTypes : includes(s, a)

\* server.js:69-81
fileFilter(file) ==
    LET ext == allowedTypesTest(toLowerCase(extname(file.originalname)))
        mimetype == allowedTypesTest(file.mimetype) \/ file.mimetype = "text/plain"
    IN  mimetype /\ ext

\* server.js:58-61  uniqueSuffix (Date.now() and a random number) is a fresh
\* number n; multer joins the destination and the file name into the path
stagedName(file, n) == "file-" \o ToString(n) \o extname(file.originalname)
stagedPath(file, n) == "uploads/" \o stagedName(file, n)

(***************************************************************************)
(* The session cache (a Map) and the upload directory.                     *)
(***************************************************************************)
\* Map.prototype.has
MapHas(m, k) == k \in DOMAIN m

\* Map.prototype.set: insert or replace the whole value of the key
MapSet(m, k, v) == [x \in DOMAIN m \cup {k} |-> IF x = k THEN v ELSE m[x]]

\* the key a JavaScript value is as a Map key (a string is itself)
keyOf(v) == IF v.t = "string" THEN v.v ELSE undefined

\* fs.unlinkSync(path): removes the file, or throws when the file system
\* refuses (ok = FALSE) or the file is not there
unlinkSync(d, path, ok) ==
    IF ok /\ path \in d THEN Return(d \ {path})
    ELSE Throw("EPERM: operation not permitted, unlink '" \o path \o "'")

(***************************************************************************)
(* The ML API client functions (server.js:320-386).  resp is what          *)
(* axios.post resolved or rejected with.                                   *)
(***************************************************************************)
\* mutant: the client reports the transport text only
upstreamMessage_TransportOnly(resp) == resp.message

\* error.response?.data?.error || error.message
upstreamMessage(resp) == IF Truthy(resp.error) THEN resp.error.v ELSE resp.message

\* server.js:322-324  the guard that throws before the request is made
uploadGuard(fileInfo) == Falsy(fileInfo.path)

\* server.js:320-351
uploadPDFToMLAPI(fileInfo, resp) ==
    IF uploadGuard(fileInfo)
    THEN Throw("ML API upload failed: File information is required for ML API upload")
    ELSE IF resp.ok THEN Return(resp.data)
    ELSE Throw("ML API upload failed: " \o upstreamMessage(resp))

\* mutant: the client also sends when the cached record was indexed
queryPayload_WithRecord(pdf_id, question, cachedPDF) ==
    [pdf_id |-> pdf_id, question |-> question, indexedAt |-> cachedPDF.indexedAt]

\* server.js:360-364  the form the client posts: cachedPDF is not used
queryPayload(pdf_id, question, cachedPDF) ==
    [pdf_id |-> pdf_id, question |-> question]

\* server.js:356-358  the guard that throws before the request is made
queryGuard(pdf_id, question) == Falsy(pdf_id) \/ Falsy(question)

\* server.js:354-386
queryPDFFromMLAPI(pdf_id, question, resp) ==
    IF queryGuard(pdf_id, question)
    THEN Throw("ML API query failed: PDF ID and question are required for ML API query")
    ELSE IF resp.ok THEN Return(resp.data)
    ELSE Throw("ML API query failed: " \o upstreamMessage(resp))

(***************************************************************************)
(* POST /hackrx/upload (server.js:148-222).                                *)
(***************************************************************************)
\* server.js:155  the condition under which the handler answers 400
notPdf(file) ==
    /\ file.mimetype # "application/pdf"
    /\ ~endsWith(toLowerCase(file.originalname), ".pdf")

\* server.js:159-165
fileInfoOf(file, n) ==
    [filename |-> stagedName(file, n),
     originalName |-> file.originalname,
     mimetype |-> file.mimetype,
     size |-> file.size,
     path |-> stagedPath(file, n)]

\* mutant: the handler takes the identifier from a place all requests share
GetPdfId_Shared(v) == IF v.t = "object" THEN Str("abc123") ELSE Undef

\* server.js:173  mlResponse.pdf_id
GetPdfId(v) == IF v.t = "object" THEN v.pdf_id ELSE Undef

\* mutant: the handler does not check the identifier at all
missingPdfId_Never(pdf_id) == FALSE

\* mutant: the handler checks pdf_id === undefined only
missingPdfId_UndefinedOnly(pdf_id) == pdf_id.t = "undefined"

\* server.js:175  the condition under which the handler throws
missingPdfId(pdf_id) == ~Truthy(pdf_id)

\* server.js:187-192  the record stored for an upload; t is new Date() (the
\* ISO text of a time is kept as the time)
cacheRecord(fileInfo, mlResponse, t) ==
    [fileInfo |-> fileInfo,
     indexedAt |-> t,
     mlApiResponse |-> mlResponse,
     originalFilename |-> fileInfo.originalName]

\* mutant: the handler answers without storing the record
cacheWrite_Skip(cache, pdf_id, rec) == cache

\* mutant: the handler stores the record only when the key is new
cacheWrite_InsertOnly(cache, pdf_id, rec) ==
    IF MapHas(cache, keyOf(pdf_id)) THEN cache ELSE MapSet(cache, keyOf(pdf_id), rec)

\* mutant: the handler keeps the latest record only
cacheWrite_LatestOnly(cache, pdf_id, rec) == [k \in {keyOf(pdf_id)} |-> rec]

\* mutant: a second upload of an identifier keeps the file of the first
cacheWrite_Merge(cache, pdf_id, rec) ==
    IF MapHas(cache, keyOf(pdf_id))
    THEN MapSet(cache, keyOf(pdf_id),
                [rec EXCEPT !.fileInfo = cache[keyOf(pdf_id)].fileInfo])
    ELSE MapSet(cache, keyOf(pdf_id), rec)

\* server.js:187  the cache after the handler's write
cacheWrite(cache, pdf_id, rec) == MapSet(cache, keyOf(pdf_id), rec)

\* mutant: the catch block does not clean up
catchUnlinks_Never(fileInfo, d) == FALSE

\* server.js:212  the catch block unlinks when the staged file is still there
catchUnlinks(fileInfo, d) == ~Falsy(fileInfo.path) /\ fileInfo.path \in d

\* mutant: the error of a refused unlink replaces the error being handled
uploadCatch_CleanupErrorWins(fileInfo, message, cache, d, ok) ==
    LET attempt == catchUnlinks(fileInfo, d)
        rm == unlinkSync(d, fileInfo.path, ok)
    IN  [status |-> 500,
         body |-> [error |-> IF attempt /\ rm.threw THEN rm.message ELSE message],
         cache |-> cache,
         disk |-> IF attempt /\ ~rm.threw THEN rm.value ELSE d,
         unlinks |-> IF attempt THEN 1 ELSE 0]

\* mutant: the catch block keeps a record of the failed upload, under the
\* name of the file
uploadCatch_PersistFailed(fileInfo, message, cache, d, ok) ==
    LET attempt == catchUnlinks(fileInfo, d)
        rm == unlinkSync(d, fileInfo.path, ok)
    IN  [status |-> 500,
         body |-> [error |-> message],
         cache |-> MapSet(cache, fileInfo.originalName,
                          [fileInfo |-> fileInfo, failed |-> message]),
         disk |-> IF attempt /\ ~rm.threw THEN rm.value ELSE d,
         unlinks |-> IF attempt THEN 1 ELSE 0]

\* server.js:208-221  the catch block: best-effort cleanup, then 500
uploadCatch(fileInfo, message, cache, d, ok) ==
    LET attempt == catchUnlinks(fileInfo, d)
        rm == unlinkSync(d, fileInfo.path, ok)
    IN  [status |-> 500,
         body |-> [error |-> message],
         cache |-> cache,
         disk |-> IF attempt /\ ~rm.threw THEN rm.value ELSE d,
         unlinks |-> IF attempt THEN 1 ELSE 0]

\* server.js:170-221  the handler from the return of the index call on
uploadResume(fileInfo, resp, cache, d, t, ok) ==
    LET call == uploadPDFToMLAPI(fileInfo, resp)
    IN  IF call.threw THEN uploadCatch(fileInfo, call.message, cache, d, ok)
        ELSE IF ~CanRead(call.value)
        THEN uploadCatch(fileInfo, "Cannot read properties of null (reading 'pdf_id')",
                         cache, d, ok)
        ELSE IF missingPdfId(GetPdfId(call.value))
        THEN uploadCatch(fileInfo, "ML API did not return a pdf_id in response",
                         cache, d, ok)
        ELSE LET pdf_id == GetPdfId(call.value)
                 rm == unlinkSync(d, fileInfo.path, ok)
             IN  [status |-> 200,
                  body |-> [pdf_id |-> keyOf(pdf_id),
                            message |-> "PDF uploaded & indexed"],
                  cache |-> cacheWrite(cache, pdf_id,
                                       cacheRecord(fileInfo, call.value, t)),
                  disk |-> IF rm.threw THEN d ELSE rm.value,
                  unlinks |-> 1]

(***************************************************************************)
(* POST /hackrx/query (server.js:225-281).                                 *)
(***************************************************************************)
\* JSON.stringify of a body: a property that is undefined is left out
RECURSIVE JSONstringify(_)
JSONstringify(v) ==
    CASE v.t = "string" -> "\"" \o v.v \o "\""
      [] v.t = "null" -> "null"
      [] v.t = "object" ->
            LET a == IF v.answer.t = "undefined" THEN ""
                     ELSE "\"answer\":" \o JSONstringify(v.answer)
                r == IF v.response.t = "undefined" THEN ""
                     ELSE "\"response\":" \o JSONstringify(v.response)
            IN  "{" \o a \o (IF a # "" /\ r # "" THEN "," ELSE "") \o r \o "}"
      [] OTHER -> undefined

\* server.js:257-270  the answer text taken from the ML API's body
answerText(mlResponse) ==
    IF ~CanRead(mlResponse)
    THEN Throw("Cannot read properties of null (reading 'answer')")
    ELSE IF Truthy(GetAnswer(mlResponse)) /\ Truthy(GetAnswer(GetAnswer(mlResponse)))
    THEN Return(GetAnswer(GetAnswer(mlResponse)))
    ELSE IF Truthy(GetAnswer(mlResponse))
    THEN Return(GetAnswer(mlResponse))
    ELSE IF Truthy(GetResponse(mlResponse))
    THEN Return(GetResponse(mlResponse))
    ELSE Return(IF mlResponse.t = "string" THEN mlResponse
                ELSE Str(JSONstringify(mlResponse)))

\* server.js:230  the handler answers 400 'pdf_id is required'
missingId(pdf_id) == Falsy(pdf_id)

\* server.js:234  the handler answers 400 'question is required'
missingQuestion(question) == Falsy(question) \/ Falsy(trim(question))

\* mutant: the handler does not look the identifier up
notCached_Never(cache, pdf_id) == FALSE

\* server.js:239  the handler answers 404
notCached(cache, pdf_id) == ~MapHas(cache, pdf_id)

\* server.js:241
notFoundMessage(pdf_id) ==
    "PDF with id '" \o pdf_id
        \o "' not found. Please upload the PDF first using /hackrx/upload."

\* server.js:227-243  the local rejections of a query; status 0: none
queryReject(pdf_id, question, cache) ==
    IF missingId(pdf_id)
    THEN [status |-> 400, body |-> [error |-> "pdf_id is required"]]
    ELSE IF missingQuestion(question)
    THEN [status |-> 400, body |-> [error |-> "question is required"]]
    ELSE IF notCached(cache, pdf_id)
    THEN [status |-> 404, body |-> [error |-> notFoundMessage(pdf_id)]]
    ELSE [status |-> 0]

\* server.js:251-280  the handler from the return of the query call on
queryResume(pdf_id, question, resp) ==
    LET call == queryPDFFromMLAPI(pdf_id, question, resp)
    IN  IF call.threw THEN [status |-> 500, body |-> [error |-> call.message]]
        ELSE LET text == answerText(call.value)
             IN  IF text.threw
                 THEN [status |-> 500, body |-> [error |-> text.message]]
                 ELSE [status |-> 200, body |-> [answer |-> [answer |-> text.value]]]

(***************************************************************************)
(* POST /api/chat (server.js:285-316).                                     *)
(***************************************************************************)
\* the message field of a chat request
MessageInputs == {undefined, "hello"}

\* server.js:296-301  the four canned answers, by their index
responses(message) ==
    <<"Thank you for your message: \"" \o message
          \o "\". This is a general chat response.",
      "I received your message about \"" \o message
          \o "\". For document analysis, please upload a PDF file first.",
      "Hello! You said: \"" \o message
          \o "\". I'm ready to help with document analysis if you upload a PDF.",
      "I understand you're asking about \"" \o message
          \o "\". Upload a PDF document and I can provide detailed analysis.">>

\* server.js:286-311  the answer of the handler; i is the index that
\* Math.floor(Math.random() * responses.length) gives (the conversation id
\* and the timestamp of the body are left out)
chatAnswer(message, i) ==
    IF Falsy(message)
    THEN [status |-> 400, body |-> [error |-> "Message is required"]]
    ELSE [status |-> 200,
          body |-> [success |-> TRUE, response |-> responses(message)[i + 1]]]

(***************************************************************************)
(* State.                                                                  *)
(***************************************************************************)
NoResponse == [kind |-> "none"]
NoCall == [ok |-> FALSE, error |-> Undef, message |-> "no request was made"]
EmptyMap == [k \in {} |-> Null]

Pending == Cardinality(indexing) + BagCardinality(querying)

\* the response of an upload request, with what the request did
UploadSent(file, path, called, ml, unlinks, status, body) ==
    [kind |-> "upload", file |-> file, path |-> path, called |-> called,
     ml |-> ml, unlinks |-> unlinks, status |-> status, body |-> body]

\* the response of a query request, with what the request did
QuerySent(pdf_id, question, called, ml, status, body) ==
    [kind |-> "query", pdf_id |-> pdf_id, question |-> question,
     called |-> called, ml |-> ml, status |-> status, body |-> body]

\* no run of analyzeDocument is going on
NoBatch == [pc |-> "none"]

\* no handler run is followed statement by statement
NoHandlers == [running |-> 0, reqs |-> <<>>]

\* the ChatInterface component is not mounted
NoUi == [mounted |-> FALSE]

Init ==
    /\ pdfCache = EmptyMap
    /\ disk = {}
    /\ indexing = {}
    /\ querying = EmptyBag
    /\ seq = 0
    /\ now = 0
    /\ sent = NoResponse
    /\ indexed = {}
    /\ returned = {}
    /\ log = <<>>
    /\ batch = NoBatch
    /\ handlers = NoHandlers
    /\ ui = NoUi

(***************************************************************************)
(* An upload request arrives: multer (server.js:64-82, and the error       *)
(* middleware 471-479 for what it rejects), then the handler up to the     *)
(* index call (server.js:148-170).  The files of the model by what         *)
(* happens to them:                                                        *)
(***************************************************************************)
\* mutant: multer is given no size limit
tooLarge_Never(file) == FALSE

\* server.js:66-68  multer stops a file that has more bytes than the limit
tooLarge(file) == file.size > fileSize

\* the file filter calls back with an error: nothing is staged
Refused == {f \in FileInputs : ~fileFilter(f)}
\* the file passes the filter and then the size limit
TooLarge == {f \in FileInputs : fileFilter(f) /\ tooLarge(f)}
\* the file is written to ./uploads and the handler runs with req.file
Staged == {f \in FileInputs : fileFilter(f) /\ ~tooLarge(f)}
\* the handler answers 400 'Only PDF files are supported'
Unsupported == {f \in Staged : notPdf(f)}
\* the handler calls the ML API
Forwarded == {f \in Staged : ~notPdf(f)}

UploadRequest(file) ==
    /\ UNCHANGED <<log, batch, handlers, ui>>
    /\ sent = NoResponse
    /\ UNCHANGED <<pdfCache, querying, now, indexed, returned>>
    /\ \/ \* no file part: req.file is undefined (server.js:150-152)
          /\ file = NoFile
          /\ sent' = UploadSent(file, "", FALSE, NoCall, 0, 400,
                                [error |-> "No PDF file uploaded"])
          /\ UNCHANGED <<disk, indexing, seq>>
       \/ \* the error middleware answers for the file filter (server.js:79, 478)
          /\ file \in Refused
          /\ sent' = UploadSent(file, "", FALSE, NoCall, 0, 500,
                                [error |-> "Invalid file type"])
          /\ UNCHANGED <<disk, indexing, seq>>
       \/ \* multer removes what it wrote and the error middleware answers
          \* (server.js:67, 473-476)
          /\ file \in TooLarge
          /\ sent' = UploadSent(file, "", FALSE, NoCall, 0, 400,
                                [error |-> "File too large"])
          /\ UNCHANGED <<disk, indexing, seq>>
       \/ \* the file is staged and the handler answers 400 (server.js:155-157)
          /\ file \in Unsupported
          /\ seq < MaxUploads
          /\ seq' = seq + 1
          /\ disk' = disk \cup {stagedPath(file, seq + 1)}
          /\ sent' = UploadSent(file, stagedPath(file, seq + 1), FALSE, NoCall, 0,
                                400, [error |-> "Only PDF files are supported"])
          /\ UNCHANGED indexing
       \/ \* the file is staged and the handler awaits the index call
          \* (server.js:159-170)
          /\ file \in Forwarded
          /\ seq < MaxUploads
          /\ Pending < MaxPending
          /\ seq' = seq + 1
          /\ disk' = disk \cup {stagedPath(file, seq + 1)}
          /\ indexing' = indexing \cup
                {[fileInfo |-> fileInfoOf(file, seq + 1),
                  called |-> ~uploadGuard(fileInfoOf(file, seq + 1))]}
          /\ sent' = NoResponse

(***************************************************************************)
(* The index call of an upload returns and the handler runs to its         *)
(* response (server.js:170-221).  The file system lets the unlink through  *)
(* or not; new Date() returns a later time at each read.                   *)
(***************************************************************************)
UploadIndexReturn(u, resp) ==
    /\ UNCHANGED <<log, batch, handlers, ui>>
    /\ sent = NoResponse
    /\ u \in indexing
    /\ \E ok \in BOOLEAN :
          /\ LET fileInfo == u.fileInfo
                 t == now + 1
                 answer == IF u.called THEN resp ELSE NoCall
                 out == uploadResume(fileInfo, answer, pdfCache, disk, t, ok)
                 file == File(fileInfo.originalName, fileInfo.mimetype, fileInfo.size)
             IN  /\ pdfCache' = out.cache
                 /\ disk' = out.disk
                 /\ now' = IF out.status = 200 THEN t ELSE now
                 /\ sent' = UploadSent(file, fileInfo.path, u.called, answer,
                                       out.unlinks, out.status, out.body)
                 /\ indexed' = indexed \cup
                        (IF /\ answer.ok
                            /\ answer.data.t = "object"
                            /\ answer.data.pdf_id.t = "string"
                            /\ answer.data.pdf_id.v # ""
                         THEN {answer.data.pdf_id.v} ELSE {})
                 /\ returned' = returned \cup
                        (IF out.status = 200 THEN {out.body.pdf_id} ELSE {})
    /\ indexing' = indexing \ {u}
    /\ UNCHANGED <<querying, seq>>

(***************************************************************************)
(* A query request arrives: the handler up to the query call, or to its    *)
(* local rejection (server.js:225-251).                                    *)
(***************************************************************************)
QueryRequest(pdf_id, question) ==
    /\ UNCHANGED <<log, batch, handlers, ui>>
    /\ sent = NoResponse
    /\ UNCHANGED <<pdfCache, disk, indexing, seq, now, indexed, returned>>
    /\ LET rej == queryReject(pdf_id, question, pdfCache)
       IN  IF rej.status # 0
           THEN /\ sent' = QuerySent(pdf_id, question, FALSE, NoCall,
                                     rej.status, rej.body)
                /\ UNCHANGED querying
           ELSE /\ Pending < MaxPending
                /\ querying' = querying (+) SetToBag(
                      {[pdf_id |-> pdf_id,
                        question |-> trim(question),
                        called |-> ~queryGuard(pdf_id, trim(question))]})
                /\ sent' = NoResponse

\* mutant: the handler notes in the record of the document that it was asked
QueryReturn_TouchesRecord(q, resp) ==
    /\ UNCHANGED <<log, batch, handlers, ui>>
    /\ sent = NoResponse
    /\ BagIn(q, querying)
    /\ LET answer == IF q.called THEN resp ELSE NoCall
           out == queryResume(q.pdf_id, q.question, answer)
       IN  sent' = QuerySent(q.pdf_id, q.question, q.called, answer,
                             out.status, out.body)
    /\ querying' = querying (-) SetToBag({q})
    /\ pdfCache' = [pdfCache EXCEPT ![q.pdf_id].originalFilename = q.question]
    /\ UNCHANGED <<disk, indexing, seq, now, indexed, returned>>

\* mutant: a query that fails takes the document out of the cache
QueryReturn_EvictOnFailure(q, resp) ==
    /\ UNCHANGED <<log, batch, handlers, ui>>
    /\ sent = NoResponse
    /\ BagIn(q, querying)
    /\ LET answer == IF q.called THEN resp ELSE NoCall
           out == queryResume(q.pdf_id, q.question, answer)
       IN  /\ sent' = QuerySent(q.pdf_id, q.question, q.called, answer,
                                out.status, out.body)
           /\ pdfCache' = IF out.status = 200 THEN pdfCache
                          ELSE [k \in DOMAIN pdfCache \ {q.pdf_id} |-> pdfCache[k]]
    /\ querying' = querying (-) SetToBag({q})
    /\ UNCHANGED <<disk, indexing, seq, now, indexed, returned>>

(***************************************************************************)
(* The query call returns and the handler runs to its response             *)
(* (server.js:251-280).                                                    *)
(***************************************************************************)
QueryReturn(q, resp) ==
    /\ UNCHANGED <<log, batch, handlers, ui>>
    /\ sent = NoResponse
    /\ BagIn(q, querying)
    /\ LET answer == IF q.called THEN resp ELSE NoCall
           out == queryResume(q.pdf_id, q.question, answer)
       IN  sent' = QuerySent(q.pdf_id, q.question, q.called, answer,
                             out.status, out.body)
    /\ querying' = querying (-) SetToBag({q})
    /\ UNCHANGED <<pdfCache, disk, indexing, seq, now, indexed, returned>>

(***************************************************************************)
(* A chat request arrives and is answered in the same run                  *)
(* (server.js:285-316).                                                    *)
(***************************************************************************)
ChatRequest(message, i) ==
    /\ UNCHANGED <<log, batch, handlers, ui>>
    /\ sent = NoResponse
    /\ LET out == chatAnswer(message, i)
       IN  sent' = [kind |-> "chat", message |-> message,
                    status |-> out.status, body |-> out.body]
    /\ UNCHANGED <<pdfCache, disk, indexing, querying, seq, now, indexed, returned>>

(***************************************************************************)
(* The run of a handler that has answered ends: the response is on its way *)
(* to the client and the event loop takes the next event.                  *)
(***************************************************************************)
EndOfRun ==
    /\ UNCHANGED <<log, batch, handlers, ui>>
    /\ sent # NoResponse
    /\ sent' = NoResponse
    /\ UNCHANGED <<pdfCache, disk, indexing, querying, seq, now, indexed, returned>>

Next ==
    \/ \E file \in FileInputs \cup {NoFile} : UploadRequest(file)
    \/ \E u \in indexing, resp \in IndexResponses : UploadIndexReturn(u, resp)
    \/ \E pdf_id \in PdfIdInputs, question \in QuestionInputs :
          QueryRequest(pdf_id, question)
    \/ \E q \in BagToSet(querying), resp \in QueryResponses : QueryReturn(q, resp)
    \/ \E message \in MessageInputs, i \in 0..3 : ChatRequest(message, i)
    \/ EndOfRun

Spec == Init /\ [][Next]_vars

(***************************************************************************)
(* The server against an ML API that answers queries deterministically:    *)
(* the answer is a function of the form it is sent.  The query requests    *)
(* that reach the ML API are numbered in their order of arrival, and log   *)
(* keeps for each what it asked and how it ended (status 0: not yet).      *)
(***************************************************************************)
StubQuestions == {"Q1", " Q2 "}

\* the uploads of these runs: a PDF that the ML API indexes under abc123
StubFile == File("policy.pdf", "application/pdf", 2048)
StubIndexResponses == {[ok |-> TRUE, data |-> IndexBody(Str("abc123"), 1)]}

\* the text the stub answers with: all that the form carries
StubText(payload) ==
    "answer to " \o payload.question \o " on " \o payload.pdf_id
        \o (IF "indexedAt" \in DOMAIN payload
            THEN " as of " \o ToString(payload.indexedAt) ELSE "")

\* the stub fails on the question Q2 and answers every other one
Stub(payload) ==
    IF payload.question = "Q2"
    THEN [ok |-> FALSE, error |-> Str("model overloaded"),
          message |-> "Request failed with status code 503"]
    ELSE [ok |-> TRUE, data |-> Obj(Obj(Str(StubText(payload)), Undef), Undef)]

\* server.js:225-251  a query request arrives, as in QueryRequest; the
\* pending request keeps the form that the client function has posted
StubQueryRequest(pdf_id, question) ==
    /\ sent = NoResponse
    /\ UNCHANGED <<pdfCache, disk, indexing, seq, now, indexed, returned, batch, handlers, ui>>
    /\ LET rej == queryReject(pdf_id, question, pdfCache)
       IN  IF rej.status # 0
           THEN /\ sent' = QuerySent(pdf_id, question, FALSE, NoCall,
                                     rej.status, rej.body)
                /\ UNCHANGED <<querying, log>>
           ELSE /\ Pending < MaxPending
                /\ Len(log) < MaxQueries
                /\ LET cachedPDF == pdfCache[pdf_id]
                       n == Len(log) + 1
                   IN  /\ querying' = querying (+) SetToBag(
                             {[pdf_id |-> pdf_id,
                               question |-> trim(question),
                               called |-> ~queryGuard(pdf_id, trim(question)),
                               payload |-> queryPayload(pdf_id, trim(question),
                                                        cachedPDF),
                               n |-> n]})
                       /\ log' = Append(log, [pdf_id |-> pdf_id,
                                              question |-> question,
                                              cachedAt |-> cachedPDF.indexedAt,
                                              status |-> 0,
                                              body |-> Null])
                /\ sent' = NoResponse

\* mutant: a query whose call failed drops the record of its identifier
StubQueryReturn_EvictOnFailure(q) ==
    /\ sent = NoResponse
    /\ BagIn(q, querying)
    /\ LET answer == IF q.called THEN Stub(q.payload) ELSE NoCall
           out == queryResume(q.pdf_id, q.question, answer)
       IN  /\ sent' = QuerySent(q.pdf_id, q.question, q.called, answer,
                                out.status, out.body)
           /\ log' = [log EXCEPT ![q.n] =
                        [@ EXCEPT !.status = out.status, !.body = out.body]]
           /\ pdfCache' = IF answer.ok THEN pdfCache
                          ELSE [k \in DOMAIN pdfCache \ {q.pdf_id} |-> pdfCache[k]]
    /\ querying' = querying (-) SetToBag({q})
    /\ UNCHANGED <<disk, indexing, seq, now, indexed, returned, batch, handlers, ui>>

\* server.js:251-280  the query call returns with the stub's answer to the
\* form and the handler runs to its response, as in QueryReturn
StubQueryReturn(q) ==
    /\ sent = NoResponse
    /\ BagIn(q, querying)
    /\ LET answer == IF q.called THEN Stub(q.payload) ELSE NoCall
           out == queryResume(q.pdf_id, q.question, answer)
       IN  /\ sent' = QuerySent(q.pdf_id, q.question, q.called, answer,
                                out.status, out.body)
           /\ log' = [log EXCEPT ![q.n] =
                        [@ EXCEPT !.status = out.status, !.body = out.body]]
    /\ querying' = querying (-) SetToBag({q})
    /\ UNCHANGED <<pdfCache, disk, indexing, seq, now, indexed, returned, batch, handlers, ui>>

StubNext ==
    \/ UploadRequest(StubFile)
    \/ \E u \in indexing, resp \in StubIndexResponses : UploadIndexReturn(u, resp)
    \/ \E pdf_id \in Ids, question \in StubQuestions :
          StubQueryRequest(pdf_id, question)
    \/ \E q \in BagToSet(querying) : StubQueryReturn(q)
    \/ EndOfRun

SpecStub == Init /\ [][StubNext]_vars

(***************************************************************************)
(* analyzeDocument of the browser's apiService (src/src/services/api.ts,   *)
(* lines 102-141), against a server that answers each request with a 2xx   *)
(* body or not (axios then rejects).  One action is one run of the         *)
(* function to its next await.  batch keeps its locals (pdf_id,            *)
(* questionArray, answers, the position i of the loop), the requests that  *)
(* await their answer (inflight) and, as history, the requests issued so   *)
(* far in order (issued) and the request whose rejection was caught        *)
(* (failed).                                                               *)
(***************************************************************************)
\* the questions argument: a string or an array of strings
Arr(q) == [t |-> "array", v |-> q]

QuestionTexts == {"Q1", " Q2 ", " ", ""}

RECURSIVE SeqsUpTo(_, _)
SeqsUpTo(S, n) ==
    IF n = 0 THEN {<<>>}
    ELSE LET shorter == SeqsUpTo(S, n - 1)
         IN  shorter \cup {Append(q, x) : q \in shorter, x \in S}

QuestionsInputs ==
    {Str(x) : x \in QuestionTexts} \cup {Arr(q) : q \in SeqsUpTo(QuestionTexts, MaxQuestions)}

\* the File the browser hands over
BrowserFile == [name |-> "policy.pdf", type |-> "application/pdf", size |-> 2048]

\* api.ts:73-84  the request of uploadPDFToHackRX
uploadForm(file) == [kind |-> "upload", file |-> file]

\* api.ts:87-99  the request of queryPDFFromHackRX
queryForm(pdf_id, question) == [kind |-> "query", pdf_id |-> pdf_id, question |-> question]

NoRequest == [kind |-> "none"]

\* what the server answers to a request: a 2xx body (response.data), or
\* anything else, on which axios rejects with an error that names the request
HttpFailure(req) ==
    [ok |-> FALSE, message |-> "Request failed with status code 500", request |-> req]

\* the answer to an upload: one of the identifiers, or a failure
UploadAnswer(req, id) ==
    IF id \in Ids
    THEN [ok |-> TRUE, data |-> [pdf_id |-> id, message |-> "PDF uploaded & indexed"]]
    ELSE HttpFailure(req)

\* the answer to a query: a text that is a function of the form, or a failure
QueryAnswer(req, ok) ==
    IF ok THEN [ok |-> TRUE, data |-> [answer |-> [answer |-> StubText(req)]]]
    ELSE HttpFailure(req)

\* api.ts:112
questionArray(questions) == IF questions.t = "array" THEN questions.v ELSE <<questions.v>>

\* mutant: the loop tests the question for emptiness without trimming it
asks_Untrimmed(question) == ~Falsy(question)

\* api.ts:116  if (question && question.trim())
asks(question) == ~Falsy(question) /\ ~Falsy(trim(question))

\* api.ts:115-116  the position of the first question at or after i that the
\* loop asks; past the end when there is none
nextAsked(array, i) ==
    LET later == {j \in i..Len(array) : asks(array[j])}
    IN  IF later = {} THEN Len(array) + 1
        ELSE CHOOSE j \in later : \A k \in later : j <= k

\* api.ts:124-136  the value returned (the timestamp is left out)
analyzeResult(b) ==
    [success |-> TRUE,
     response |-> [answers |-> b.answers],
     file |-> [originalName |-> b.file.name, mimetype |-> b.file.type,
               size |-> b.file.size],
     questions |-> SelectSeq(b.questionArray, asks)]

\* api.ts:115-136  the loop from position i on, to its next await or to the
\* return
loopFrom(b, i) ==
    LET j == nextAsked(b.questionArray, i)
    IN  IF j <= Len(b.questionArray)
        THEN LET req == queryForm(b.pdf_id, trim(b.questionArray[j]))
             IN  [b EXCEPT !.pc = "querying", !.i = j,
                           !.inflight = @ \cup {req},
                           !.issued = Append(@, req)]
        ELSE [b EXCEPT !.pc = "returned", !.i = j,
                       !.outcome = Return(analyzeResult(b))]

\* mutant: the error of a request is swallowed and what was collected is
\* returned
rejected_Partial(b, error) ==
    [b EXCEPT !.pc = "returned", !.outcome = Return(analyzeResult(b))]

\* api.ts:137-140  the catch block: the error is thrown on as it is
rejected(b, error) ==
    [b EXCEPT !.pc = "threw", !.outcome = [threw |-> TRUE, error |-> error]]

\* api.ts:102-106  analyzeDocument is called and runs to the await of the
\* upload
AnalyzeDocument(file, questions) ==
    /\ batch = NoBatch
    /\ batch' = [pc |-> "uploading",
                 file |-> file,
                 questionArray |-> questionArray(questions),
                 pdf_id |-> undefined,
                 answers |-> <<>>,
                 i |-> 0,
                 inflight |-> {uploadForm(file)},
                 issued |-> <<uploadForm(file)>>,
                 failed |-> NoRequest,
                 outcome |-> [pending |-> TRUE]]
    /\ UNCHANGED <<pdfCache, disk, indexing, querying, seq, now, sent, indexed,
                   returned, log, handlers, ui>>

\* api.ts:106-121  the upload is answered: the function takes pdf_id and
\* enters the loop, or throws what axios rejected with
UploadAnswered(id) ==
    /\ batch.pc = "uploading"
    /\ LET req == uploadForm(batch.file)
           resp == UploadAnswer(req, id)
           b == [batch EXCEPT !.inflight = @ \ {req}]
       IN  batch' = IF resp.ok
                    THEN loopFrom([b EXCEPT !.pdf_id = resp.data.pdf_id], 1)
                    ELSE rejected([b EXCEPT !.failed = req], resp)
    /\ UNCHANGED <<pdfCache, disk, indexing, querying, seq, now, sent, indexed,
                   returned, log, handlers, ui>>

\* api.ts:118-121  the query of the question at position i is answered: its
\* answer is pushed and the loop goes on, or the function throws what axios
\* rejected with
QueryAnswered(ok) ==
    /\ batch.pc = "querying"
    /\ LET req == queryForm(batch.pdf_id, trim(batch.questionArray[batch.i]))
           resp == QueryAnswer(req, ok)
           b == [batch EXCEPT !.inflight = @ \ {req}]
       IN  batch' = IF resp.ok
                    THEN loopFrom([b EXCEPT !.answers =
                                      Append(@, [answer |-> resp.data.answer.answer])],
                                  batch.i + 1)
                    ELSE rejected([b EXCEPT !.failed = req], resp)
    /\ UNCHANGED <<pdfCache, disk, indexing, querying, seq, now, sent, indexed,
                   returned, log, handlers, ui>>

BatchNext ==
    \/ \E questions \in QuestionsInputs : AnalyzeDocument(BrowserFile, questions)
    \/ \E id \in Ids \cup {undefined} : UploadAnswered(id)
    \/ \E ok \in BOOLEAN : QueryAnswered(ok)

SpecBatch == Init /\ [][BatchNext]_vars

(***************************************************************************)
(* The two handlers statement by statement.  A statement is named by the   *)
(* line of server.js it starts at.  A request runs from its arrival, or    *)
(* from the return of its call of the ML API, statement after statement,   *)
(* to its next await or to its end; handlers.running is the request that   *)
(* is running (0: none), and no other request moves meanwhile.  Each       *)
(* request keeps the locals of its handler, the number of responses it has *)
(* sent, whether it has tested the cache for its key and not used the key  *)
(* yet (open), and, as history, the events of its run (trace).             *)
(***************************************************************************)
\* server.js:148-207  the statements of the upload handler in their order
uploadPath_UnlinkBeforeSet ==
    <<"150", "155", "159", "170", "173", "175", "182", "198", "187", "204">>

uploadPath ==
    <<"150", "155", "159", "170", "173", "175", "182", "187", "198", "204">>

\* server.js:208-221  the statements of its catch block
uploadCatchPath == <<"212", "220">>

\* mutant: the handler awaits the ML API between has() and get()
queryPath_AwaitBeforeGet == <<"230", "234", "239", "251", "248", "258", "272">>

\* server.js:225-276  the statements of the query handler in their order
queryPath == <<"230", "234", "239", "248", "251", "258", "272">>

\* server.js:277-280  the statement of its catch block
queryCatchPath == <<"279">>

Range(q) == {q[i] : i \in DOMAIN q}

\* the path a statement is on
pathOf(kind, pc) ==
    IF kind = "upload"
    THEN IF pc \in Range(uploadCatchPath) THEN uploadCatchPath ELSE uploadPath
    ELSE IF pc \in Range(queryCatchPath) THEN queryCatchPath ELSE queryPath

\* the statement that follows pc on its path; "end" after the last one
following(kind, pc) ==
    LET path == pathOf(kind, pc)
        i == CHOOSE j \in DOMAIN path : path[j] = pc
    IN  IF i < Len(path) THEN path[i + 1] ELSE "end"

\* mutant: the response of an early rejection is not followed by return
afterReject_FallsThrough(kind, pc) == following(kind, pc)

\* server.js:151, 156, 231, 235, 240  return res.status(...).json(...)
afterReject(kind, pc) == "end"

\* the first statement of the catch block of a handler
catchOf(kind) == IF kind = "upload" THEN uploadCatchPath[1] ELSE queryCatchPath[1]

\* res.json / res.status().json
respond(r, status, body) ==
    [r EXCEPT !.responses = @ + 1, !.status = status, !.body = body,
              !.trace = Append(@, "json")]

goOn(r) == [r EXCEPT !.pc = following(r.kind, r.pc)]
reject(r, status, body) ==
    [respond(r, status, body) EXCEPT !.pc = afterReject(r.kind, r.pc)]
throw(r, message) == [r EXCEPT !.err = message, !.pc = catchOf(r.kind)]

\* a request as its handler starts; n is the number of the file multer
\* has staged for it (0: none), pdf_id the form field of a query, pdfId the
\* local pdf_id of the upload handler
NewRequest(kind, file, n, pdf_id, question) ==
    [kind |-> kind,
     pc |-> pathOf(kind, "")[1],
     file |-> file,
     path |-> IF n = 0 THEN "" ELSE stagedPath(file, n),
     n |-> n,
     fileInfo |-> Null,
     pdf_id |-> pdf_id,
     pdfId |-> Undef,
     question |-> question,
     awaiting |-> FALSE,
     mlResponse |-> Undef,
     cachedPDF |-> Undef,
     answerText |-> Undef,
     open |-> FALSE,
     responses |-> 0,
     status |-> 0,
     body |-> Null,
     err |-> "",
     trace |-> <<>>]

\* one statement of the upload handler: the request, the cache, the disk
\* and the clock after it
uploadStatement(r, cache, d, t, ok) ==
    LET same(x) == [r |-> x, cache |-> cache, disk |-> d, now |-> t]
        rm == unlinkSync(d, r.path, ok)
    IN  CASE r.pc = "150" ->
                same(IF r.file = NoFile
                     THEN reject(r, 400, [error |-> "No PDF file uploaded"])
                     ELSE goOn(r))
          [] r.pc = "155" ->
                same(IF notPdf(r.file)
                     THEN reject(r, 400, [error |-> "Only PDF files are supported"])
                     ELSE goOn(r))
          [] r.pc = "159" ->
                same(goOn([r EXCEPT !.fileInfo = fileInfoOf(r.file, r.n)]))
          [] r.pc = "170" -> same([r EXCEPT !.awaiting = TRUE])
          [] r.pc = "173" ->
                same(IF CanRead(r.mlResponse)
                     THEN goOn([r EXCEPT !.pdfId = GetPdfId(r.mlResponse)])
                     ELSE throw(r, "Cannot read properties of null (reading 'pdf_id')"))
          [] r.pc = "175" ->
                same(IF missingPdfId(r.pdfId)
                     THEN throw(r, "ML API did not return a pdf_id in response")
                     ELSE goOn(r))
          [] r.pc = "182" ->
                same(goOn([r EXCEPT !.open = TRUE, !.trace = Append(@, "has")]))
          [] r.pc = "187" ->
                [r |-> goOn([r EXCEPT !.open = FALSE, !.trace = Append(@, "set")]),
                 cache |-> cacheWrite(cache, r.pdfId,
                                      cacheRecord(r.fileInfo, r.mlResponse, t + 1)),
                 disk |-> d,
                 now |-> t + 1]
          [] r.pc = "198" ->
                [r |-> goOn([r EXCEPT !.trace = Append(@, "unlink")]),
                 cache |-> cache,
                 disk |-> IF rm.threw THEN d ELSE rm.value,
                 now |-> t]
          [] r.pc = "204" ->
                same(goOn(respond(r, 200, [pdf_id |-> keyOf(r.pdfId),
                                           message |-> "PDF uploaded & indexed"])))
          [] r.pc = "212" ->
                IF ~Falsy(r.path) /\ r.path \in d
                THEN [r |-> goOn([r EXCEPT !.trace = Append(@, "unlink")]),
                      cache |-> cache,
                      disk |-> IF rm.threw THEN d ELSE rm.value,
                      now |-> t]
                ELSE same(goOn(r))
          [] r.pc = "220" -> same(goOn(respond(r, 500, [error |-> r.err])))

\* one statement of the query handler
queryStatement(r, cache) ==
    CASE r.pc = "230" ->
            IF missingId(r.pdf_id)
            THEN reject(r, 400, [error |-> "pdf_id is required"])
            ELSE goOn(r)
      [] r.pc = "234" ->
            IF missingQuestion(r.question)
            THEN reject(r, 400, [error |-> "question is required"])
            ELSE goOn(r)
      [] r.pc = "239" ->
            IF notCached(cache, r.pdf_id)
            THEN reject([r EXCEPT !.trace = Append(@, "has")], 404,
                        [error |-> notFoundMessage(r.pdf_id)])
            ELSE goOn([r EXCEPT !.open = TRUE, !.trace = Append(@, "has")])
      [] r.pc = "248" ->
            goOn([r EXCEPT !.open = FALSE, !.trace = Append(@, "get"),
                           !.cachedPDF = IF MapHas(cache, r.pdf_id)
                                         THEN cache[r.pdf_id] ELSE Undef])
      [] r.pc = "251" -> [r EXCEPT !.awaiting = TRUE]
      [] r.pc = "258" ->
            LET text == answerText(r.mlResponse)
            IN  IF text.threw THEN throw(r, text.message)
                ELSE goOn([r EXCEPT !.answerText = text.value])
      [] r.pc = "272" -> goOn(respond(r, 200, [answer |-> [answer |-> r.answerText]]))
      [] r.pc = "279" -> goOn(respond(r, 500, [error |-> r.err]))

\* the await of a request returns: the value of the client function, or
\* the Error it throws, which lands in the catch block
resume(r, resp) ==
    LET call == IF r.kind = "upload" THEN uploadPDFToMLAPI(r.fileInfo, resp)
                ELSE queryPDFFromMLAPI(r.pdf_id, trim(r.question), resp)
        woken == [r EXCEPT !.awaiting = FALSE]
    IN  IF call.threw
        THEN throw([woken EXCEPT !.trace = Append(@, "rejected")], call.message)
        ELSE goOn([woken EXCEPT !.mlResponse = call.value,
                                !.trace = Append(@, "return")])

\* the inputs of these runs
StepFiles == {NoFile, File("photo.png", "image/png", 2048), StubFile}
StepIndexResponses ==
    {[ok |-> TRUE, data |-> IndexBody(Str("abc123"), 1)],
     [ok |-> TRUE, data |-> IndexBody(Undef, 1)],
     [ok |-> TRUE, data |-> Null],
     [ok |-> FALSE, error |-> Undef, message |-> "timeout of 120000ms exceeded"]}
StepQueryResponses ==
    {[ok |-> TRUE, data |-> Obj(Str("X"), Undef)],
     [ok |-> TRUE, data |-> Null],
     [ok |-> FALSE, error |-> Str("model overloaded"),
      message |-> "Request failed with status code 503"]}

\* server.js:148  multer has staged the file, if there is one, and the
\* handler starts
UploadArrives(file) ==
    /\ handlers.running = 0
    /\ Len(handlers.reqs) < MaxHandlers
    /\ LET n == IF file = NoFile THEN 0 ELSE seq + 1
       IN  /\ handlers' = [running |-> Len(handlers.reqs) + 1,
                           reqs |-> Append(handlers.reqs,
                                           NewRequest("upload", file, n, undefined, ""))]
           /\ seq' = IF file = NoFile THEN seq ELSE seq + 1
           /\ disk' = IF file = NoFile THEN disk ELSE disk \cup {stagedPath(file, n)}
    /\ UNCHANGED <<pdfCache, indexing, querying, now, sent, indexed, returned, log,
                   batch, ui>>

\* server.js:225  the handler starts with the two form fields
QueryArrives(pdf_id, question) ==
    /\ handlers.running = 0
    /\ Len(handlers.reqs) < MaxHandlers
    /\ handlers' = [running |-> Len(handlers.reqs) + 1,
                    reqs |-> Append(handlers.reqs,
                                    NewRequest("query", NoFile, 0, pdf_id, question))]
    /\ UNCHANGED <<pdfCache, disk, indexing, querying, seq, now, sent, indexed,
                   returned, log, batch, ui>>

\* the running request executes its next statement; it stops running at an
\* await and at its end
Statement(ok) ==
    /\ handlers.running # 0
    /\ LET n == handlers.running
           r == handlers.reqs[n]
           out == IF r.kind = "upload"
                  THEN uploadStatement(r, pdfCache, disk, now, ok)
                  ELSE [r |-> queryStatement(r, pdfCache), cache |-> pdfCache,
                        disk |-> disk, now |-> now]
       IN  /\ handlers' = [running |-> IF out.r.awaiting \/ out.r.pc = "end"
                                       THEN 0 ELSE n,
                           reqs |-> [handlers.reqs EXCEPT ![n] = out.r]]
           /\ pdfCache' = out.cache
           /\ disk' = out.disk
           /\ now' = out.now
    /\ UNCHANGED <<indexing, querying, seq, sent, indexed, returned, log, batch, ui>>

\* the call of the ML API of a waiting request returns and the request runs
\* again
CallReturns(n, resp) ==
    /\ handlers.running = 0
    /\ n \in DOMAIN handlers.reqs
    /\ handlers.reqs[n].awaiting
    /\ handlers' = [running |-> n,
                    reqs |-> [handlers.reqs EXCEPT ![n] = resume(@, resp)]]
    /\ UNCHANGED <<pdfCache, disk, indexing, querying, seq, now, sent, indexed,
                   returned, log, batch, ui>>

IndexCallReturns ==
    \E n \in 1..MaxHandlers, resp \in StepIndexResponses :
        /\ n \in DOMAIN handlers.reqs
        /\ handlers.reqs[n].kind = "upload"
        /\ CallReturns(n, resp)

QueryCallReturns ==
    \E n \in 1..MaxHandlers, resp \in StepQueryResponses :
        /\ n \in DOMAIN handlers.reqs
        /\ handlers.reqs[n].kind = "query"
        /\ CallReturns(n, resp)

Statements == \E ok \in BOOLEAN : Statement(ok)

StepsNext ==
    \/ \E file \in StepFiles : UploadArrives(file)
    \/ \E pdf_id \in {undefined, "abc123"}, question \in {" ", "Q1"} :
          QueryArrives(pdf_id, question)
    \/ Statements
    \/ IndexCallReturns
    \/ QueryCallReturns

SpecSteps == Init /\ [][StepsNext]_vars

\* handlers run on, and every call of the ML API returns, fails or times out
SpecStepsFair ==
    /\ SpecSteps
    /\ WF_vars(Statements)
    /\ WF_vars(IndexCallReturns)
    /\ WF_vars(QueryCallReturns)

(***************************************************************************)
(* analyzeDocument against the server of this repository: the requests of  *)
(* the batch are the requests the two handlers receive, and the responses  *)
(* the handlers send are what axios resolves or rejects with.  The ML API  *)
(* answers the server as in the statement-level runs.                      *)
(***************************************************************************)
\* api.ts:76-77  the file part of the form, as multer sees it
filePart(file) == File(file.name, file.type, file.size)

\* axios resolves with the body of a 2xx response and rejects on any other
\* status with an error that names the request
axiosResult(req, response) ==
    IF response.status \in 200..299
    THEN [ok |-> TRUE, data |-> response.body]
    ELSE [ok |-> FALSE,
          message |-> "Request failed with status code " \o ToString(response.status),
          request |-> req]

\* the upload request of the batch reaches the server
BatchUploadArrives ==
    /\ batch.pc = "uploading"
    /\ indexing = {}
    /\ seq = 0
    /\ UploadRequest(filePart(batch.file))

\* the query request of the batch reaches the server
BatchQueryArrives ==
    /\ batch.pc = "querying"
    /\ querying = EmptyBag
    /\ queryForm(batch.pdf_id, trim(batch.questionArray[batch.i])) \in batch.inflight
    /\ QueryRequest(batch.pdf_id, trim(batch.questionArray[batch.i]))

\* api.ts:106-121  the response of the server to the upload reaches the
\* browser: the function takes pdf_id and enters the loop, or throws
UploadDelivered ==
    /\ batch.pc = "uploading"
    /\ sent # NoResponse
    /\ LET req == uploadForm(batch.file)
           resp == axiosResult(req, sent)
           b == [batch EXCEPT !.inflight = @ \ {req}]
       IN  batch' = IF resp.ok
                    THEN loopFrom([b EXCEPT !.pdf_id = resp.data.pdf_id], 1)
                    ELSE rejected([b EXCEPT !.failed = req], resp)
    /\ sent' = NoResponse
    /\ UNCHANGED <<pdfCache, disk, indexing, querying, seq, now, indexed,
                   returned, log, handlers, ui>>

\* api.ts:118-121  the response of the server to the query reaches the
\* browser: its answer is pushed and the loop goes on, or the function throws
QueryDelivered ==
    /\ batch.pc = "querying"
    /\ sent # NoResponse
    /\ LET req == queryForm(batch.pdf_id, trim(batch.questionArray[batch.i]))
           resp == axiosResult(req, sent)
           b == [batch EXCEPT !.inflight = @ \ {req}]
       IN  batch' = IF resp.ok
                    THEN loopFrom([b EXCEPT !.answers =
                                      Append(@, [answer |-> resp.data.answer.answer])],
                                  batch.i + 1)
                    ELSE rejected([b EXCEPT !.failed = req], resp)
    /\ sent' = NoResponse
    /\ UNCHANGED <<pdfCache, disk, indexing, querying, seq, now, indexed,
                   returned, log, handlers, ui>>

BatchServerNext ==
    \/ \E questions \in QuestionsInputs : AnalyzeDocument(BrowserFile, questions)
    \/ BatchUploadArrives
    \/ \E u \in indexing, resp \in StepIndexResponses : UploadIndexReturn(u, resp)
    \/ UploadDelivered
    \/ BatchQueryArrives
    \/ \E q \in BagToSet(querying), resp \in StepQueryResponses : QueryReturn(q, resp)
    \/ QueryDelivered

SpecBatchServer == Init /\ [][BatchServerNext]_vars

(***************************************************************************)
(* The ChatInterface component, in its two versions: the one appended to   *)
(* server.js (lines 489-929) and the older one of src/unnamed/part_000.    *)
(* ui holds the state of the component (inputText, isLoading,              *)
(* selectedFile, currentPdfId, uploadedFileName), the invocations of its   *)
(* async functions that await an answer of the backend (calls, each with   *)
(* the values its closure has captured) and, as history, the requests      *)
(* started so far (requests, each with the function that started it and    *)
(* the value of isLoading when the event of the user arrived), the last    *)
(* event (last) and whether Clear was pressed since the last successful    *)
(* upload (cleared).  One action is one event handler, or one continuation *)
(* of an async function, run to its next await; React renders in between,  *)
(* so every handler sees the state as it is.                               *)
(***************************************************************************)
Versions == {"server.js", "part_000"}

\* what the user types or dictates
TextInputs == {"", " ", "Q1"}

\* mutant: a send with a current document asks it, whatever file is selected
route_DocumentFirst(input, selectedFile, currentPdfId) ==
    IF ~Falsy(trim(input)) /\ Truthy(currentPdfId) THEN "query"
    ELSE IF selectedFile # Null THEN "upload"
    ELSE IF ~Falsy(trim(input)) THEN "chat"
    ELSE "none"

\* server.js:585-626, part_000:90-131  the branch a send takes
route(input, selectedFile, currentPdfId) ==
    IF selectedFile # Null THEN "upload"
    ELSE IF ~Falsy(trim(input)) /\ Truthy(currentPdfId) THEN "query"
    ELSE IF ~Falsy(trim(input)) THEN "chat"
    ELSE "none"

\* server.js:666, part_000:77  handleSend returns at once
sendBlocked(u) == (Falsy(trim(u.inputText)) /\ u.selectedFile = Null) \/ u.isLoading

\* a request to the backend, with who started it and what isLoading was then
started(u, kind, pdf_id, text, by, loading) ==
    [u EXCEPT !.requests = Append(@, [kind |-> kind, pdf_id |-> pdf_id, text |-> text,
                                      by |-> by, loading |-> loading])]

\* the invocation fn now awaits the request started last
awaiting(u, fn, input, file) ==
    [u EXCEPT !.calls = @ \cup {[n |-> Len(u.requests), fn |-> fn, input |-> input,
                                 file |-> file]}]

\* server.js:571-626, part_000:79-131  from the guard to the first await
processInput(u, input) ==
    LET kind == route(input, u.selectedFile, u.currentPdfId)
        loading == [u EXCEPT !.isLoading = TRUE]
    IN  CASE kind = "upload" ->
                awaiting(started(loading, "upload", "", u.selectedFile.name,
                                 "handleSend", u.isLoading),
                         "processInput", input, u.selectedFile)
          [] kind = "query" ->
                awaiting(started(loading, "query", u.currentPdfId.v, trim(input),
                                 "handleSend", u.isLoading),
                         "processInput", input, u.selectedFile)
          [] kind = "chat" ->
                awaiting(started(loading, "chat", "", trim(input),
                                 "handleSend", u.isLoading),
                         "processInput", input, u.selectedFile)
          [] OTHER -> u

\* server.js:655-662, part_000:160-165  the finally block of a send
finally(u) == [u EXCEPT !.isLoading = FALSE, !.inputText = "", !.selectedFile = Null]

\* server.js:590-605, part_000:95-110  the upload of a send is answered
uploadAnswered(u, c, ok, id) ==
    IF ~ok THEN finally(u)
    ELSE LET stored == [u EXCEPT !.currentPdfId = Str(id),
                                 !.uploadedFileName = Str(c.file.name),
                                 !.cleared = FALSE]
         IN  IF ~Falsy(trim(c.input))
             THEN awaiting(started(stored, "query", id, trim(c.input),
                                   "processInput", u.isLoading),
                           "processInput", c.input, c.file)
             ELSE finally(stored)

\* part_000:190-192  the finally block of the older handleVoiceTranscription
voiceAnswered(u) == [u EXCEPT !.isLoading = FALSE]

\* the component mounts: the initial values of useState (server.js:497-506)
Mount(version) ==
    /\ ui = NoUi
    /\ ui' = [mounted |-> TRUE,
              version |-> version,
              inputText |-> "",
              isLoading |-> FALSE,
              selectedFile |-> Null,
              currentPdfId |-> Null,
              uploadedFileName |-> Null,
              calls |-> {},
              requests |-> <<>>,
              last |-> [ev |-> "mount", kind |-> "", ok |-> TRUE],
              cleared |-> FALSE]
    /\ UNCHANGED <<pdfCache, disk, indexing, querying, seq, now, sent, indexed,
                   returned, log, batch, handlers>>

\* onChange of the textarea, which is disabled while isLoading
TypeText(text) ==
    /\ ui.mounted
    /\ ~ui.isLoading
    /\ ui' = [ui EXCEPT !.inputText = text,
                        !.last = [ev |-> "type", kind |-> "", ok |-> TRUE]]
    /\ UNCHANGED <<pdfCache, disk, indexing, querying, seq, now, sent, indexed,
                   returned, log, batch, handlers>>

\* onFileSelect of the file picker, which is disabled while isLoading
SelectFile ==
    /\ ui.mounted
    /\ ~ui.isLoading
    /\ ui' = [ui EXCEPT !.selectedFile = BrowserFile,
                        !.last = [ev |-> "file", kind |-> "", ok |-> TRUE]]
    /\ UNCHANGED <<pdfCache, disk, indexing, querying, seq, now, sent, indexed,
                   returned, log, batch, handlers>>

\* server.js:665-675, part_000:76-78, 168-173  the send button is clicked or
\* Enter is pressed
HandleSend ==
    /\ ui.mounted
    /\ Len(ui.requests) < MaxSends
    /\ ui' = IF sendBlocked(ui) THEN ui
             ELSE [processInput(ui, ui.inputText) EXCEPT
                      !.last = [ev |-> "send", kind |-> "", ok |-> TRUE]]
    /\ UNCHANGED <<pdfCache, disk, indexing, querying, seq, now, sent, indexed,
                   returned, log, batch, handlers>>

\* server.js:677-683, part_000:175-180  the voice recogniser hands over a
\* transcript: the newer component puts it into the input field, the older
\* one sends it to the backend
HandleVoiceTranscription(transcript) ==
    /\ ui.mounted
    /\ Len(ui.requests) < MaxSends
    /\ ui' = [(IF ui.version = "server.js"
               THEN [ui EXCEPT !.inputText = transcript]
               ELSE awaiting(started([ui EXCEPT !.isLoading = TRUE], "voice", "",
                                     transcript, "handleVoiceTranscription",
                                     ui.isLoading),
                             "handleVoiceTranscription", transcript, Null))
              EXCEPT !.last = [ev |-> "voice", kind |-> "", ok |-> TRUE]]
    /\ UNCHANGED <<pdfCache, disk, indexing, querying, seq, now, sent, indexed,
                   returned, log, batch, handlers>>

\* the backend answers the request an invocation awaits, with a 2xx body
\* (an upload: with the identifier id) or not, and the invocation runs on
Answered(c, ok, id) ==
    /\ ui.mounted
    /\ c \in ui.calls
    /\ LET kind == ui.requests[c.n].kind
           u == [ui EXCEPT !.calls = @ \ {c}]
           after == CASE kind = "upload" -> uploadAnswered(u, c, ok, id)
                      [] kind = "voice" -> voiceAnswered(u)
                      [] OTHER -> finally(u)
       IN  ui' = [after EXCEPT !.last = [ev |-> "answer", kind |-> kind, ok |-> ok]]
    /\ UNCHANGED <<pdfCache, disk, indexing, querying, seq, now, sent, indexed,
                   returned, log, batch, handlers>>

\* server.js:720-730, part_000:215-225  the Clear button, which is there
\* while a document is current
Clear ==
    /\ ui.mounted
    /\ Truthy(ui.currentPdfId)
    /\ Truthy(ui.uploadedFileName)
    /\ ui' = [ui EXCEPT !.currentPdfId = Null,
                        !.uploadedFileName = Null,
                        !.cleared = TRUE,
                        !.last = [ev |-> "clear", kind |-> "", ok |-> TRUE]]
    /\ UNCHANGED <<pdfCache, disk, indexing, querying, seq, now, sent, indexed,
                   returned, log, batch, handlers>>

ChatNext ==
    \/ \E version \in Versions : Mount(version)
    \/ \E text \in TextInputs : TypeText(text)
    \/ SelectFile
    \/ HandleSend
    \/ \E transcript \in TextInputs \ {""} : HandleVoiceTranscription(transcript)
    \/ \E c \in (IF ui.mounted THEN ui.calls ELSE {}), ok \in BOOLEAN, id \in Ids :
          Answered(c, ok, id)
    \/ Clear

SpecChat == Init /\ [][ChatNext]_vars

(***************************************************************************)
(* Properties.                                                             *)
(***************************************************************************)
\* a question that is not empty once trimmed
GoodQuestion(question) == question # undefined /\ trim(question) # ""

\* an index call that failed, or succeeded with a body without an identifier
NoIdentifier(ml) ==
    \/ ~ml.ok
    \/ ml.data.t # "object"
    \/ ml.data.pdf_id.t # "string"
    \/ ml.data.pdf_id.v = ""

\* C1: in every reachable state an identifier is a key of the session cache
\* if and only if an earlier index call returned success carrying it.
C1_CachedIffIndexed ==
    \A id \in Ids \cup {undefined, "", " ", "does-not-exist"} :
        MapHas(pdfCache, id) <=> id \in indexed

\* C1 witness: one identifier is cached and the upload that has just ended
\* made an index call that carried none, so nothing was added for it.
C1_Witness ==
    /\ Cardinality(DOMAIN pdfCache) = 1
    /\ sent.kind = "upload"
    /\ sent.called
    /\ NoIdentifier(sent.ml)
    /\ sent.status = 500

\* C2: a 200 upload response carries an identifier that is in the cache when
\* the response is written, and no query with a non-empty question for an
\* identifier that a 200 upload response has carried ends in 404.
C2_ReturnedIdIsFound ==
    /\ (sent.kind = "upload" /\ sent.status = 200)
          => MapHas(pdfCache, sent.body.pdf_id)
    /\ (sent.kind = "query" /\ sent.pdf_id \in returned /\ GoodQuestion(sent.question))
          => sent.status # 404

\* C2 witness: a query for an identifier an upload returned is answered 200.
C2_Witness ==
    /\ sent.kind = "query"
    /\ sent.pdf_id \in returned
    /\ GoodQuestion(sent.question)
    /\ sent.status = 200

\* C3: a query with a non-empty question for an identifier that no 200
\* upload response has carried ends in 404 with a message naming the
\* identifier, without a call to the ML API; no query for such an
\* identifier is ever awaiting the ML API.
C3_UnknownIdNotFound ==
    /\ ( /\ sent.kind = "query"
         /\ ~Falsy(sent.pdf_id)
         /\ sent.pdf_id \notin returned
         /\ GoodQuestion(sent.question) )
          => /\ sent.status = 404
             /\ includes(sent.body.error, "'" \o sent.pdf_id \o "'")
             /\ ~sent.called
    /\ \A q \in BagToSet(querying) : q.pdf_id \in returned

\* C3 witness: with a document cached, a query for another identifier is
\* answered 404.
C3_Witness ==
    /\ pdfCache # EmptyMap
    /\ sent.kind = "query"
    /\ sent.pdf_id = "does-not-exist"
    /\ sent.status = 404

\* C4 (as claimed): when the response of an upload that staged a file is
\* written, the staged file has been released: it is no longer in the upload
\* directory, or at least the handler has called unlink on it (and the file
\* system refused).
C4_StagedFileReleased ==
    (sent.kind = "upload" /\ sent.path # "")
        => (sent.path \notin disk \/ sent.unlinks > 0)

\* C5: an upload that reached the index call has attempted the release of
\* its staged file exactly once when it answers.
C5_ReleaseAttemptedOnce ==
    (sent.kind = "upload" /\ sent.called) => sent.unlinks = 1

\* C5 witness: the index call succeeded without an identifier, the upload
\* answered 500 and the one unlink was refused (the file is still there).
C5_Witness ==
    /\ sent.kind = "upload"
    /\ sent.called
    /\ sent.ml.ok
    /\ sent.status = 500
    /\ sent.unlinks = 1
    /\ sent.path \in disk

\* both the media type and the name of a file say PDF
BothSayPdf(name, type) ==
    type = "application/pdf" /\ endsWith(toLowerCase(name), ".pdf")

\* C6 (as claimed): a file is handed to the index call only if its media
\* type is application/pdf and its name ends in .pdf.
C6_ForwardedOnlyIfBothPdf ==
    \A u \in indexing : BothSayPdf(u.fileInfo.originalName, u.fileInfo.mimetype)

\* C7: an upload whose index call failed, or succeeded without an
\* identifier, answers 500 and leaves the cache as it was; no key that is
\* undefined or empty is ever in the cache.
C7_FailedIndexWritesNothing ==
    [][ /\ (sent'.kind = "upload" /\ sent'.called /\ NoIdentifier(sent'.ml))
            => (sent'.status = 500 /\ pdfCache' = pdfCache)
        /\ ~MapHas(pdfCache', undefined)
        /\ ~MapHas(pdfCache', "") ]_vars

\* C7 witness: with a document cached, an index call succeeds with a body
\* without pdf_id and the upload answers 500.
C7_Witness ==
    /\ pdfCache # EmptyMap
    /\ sent.kind = "upload"
    /\ sent.called
    /\ sent.ml.ok
    /\ sent.ml.data = IndexBody(Undef, 1)
    /\ sent.status = 500

\* the three shapes {answer:{answer:X}}, {answer:X}, {response:X} of a body
\* and the text X each carries
ShapeText(b) ==
    IF b.t = "object" /\ b.answer.t = "object" /\ b.answer.answer.t = "string"
       /\ b.response.t = "undefined"
    THEN {b.answer.answer}
    ELSE IF b.t = "object" /\ b.answer.t = "string" /\ b.response.t = "undefined"
    THEN {b.answer}
    ELSE IF b.t = "object" /\ b.answer.t = "undefined" /\ b.response.t = "string"
    THEN {b.response}
    ELSE {}

\* C8 (as claimed): a query answered by the ML API with {answer:{answer:X}},
\* {answer:X} or {response:X} answers 200 with exactly X, for every string X.
C8_ShapesYieldText ==
    (sent.kind = "query" /\ sent.called /\ sent.ml.ok)
        => \A x \in ShapeText(sent.ml.data) :
              sent.status = 200 /\ sent.body.answer.answer = x

\* C9 (as claimed): a query the ML API answered with success answers 200
\* with an answer that is a string.
C9_AnswerIsAlwaysText ==
    (sent.kind = "query" /\ sent.called /\ sent.ml.ok)
        => (sent.status = 200 /\ sent.body.answer.answer.t = "string")

\* C10: a 200 upload whose identifier was already cached leaves under that
\* key exactly the record of this upload (its file, the time of this write,
\* its index response), keeps the other keys' records and adds no key.
C10_ReuploadOverwrites ==
    [][ \A id \in DOMAIN pdfCache :
          (sent'.kind = "upload" /\ sent'.called /\ sent'.ml.ok
              /\ ~NoIdentifier(sent'.ml) /\ sent'.ml.data.pdf_id.v = id)
          => /\ sent'.status = 200
             /\ sent'.body.pdf_id = id
             /\ DOMAIN pdfCache' = DOMAIN pdfCache
             /\ \A k \in DOMAIN pdfCache \ {id} : pdfCache'[k] = pdfCache[k]
             /\ \E u \in indexing \ indexing' :
                   pdfCache'[id] = [fileInfo |-> u.fileInfo,
                                    indexedAt |-> now',
                                    mlApiResponse |-> sent'.ml.data,
                                    originalFilename |-> sent'.file.originalname]
             /\ pdfCache'[id].indexedAt > pdfCache[id].indexedAt ]_vars

\* C10 witness: the second of two successful uploads with the same
\* identifier has answered; the cache holds its record alone.
C10_Witness ==
    /\ sent.kind = "upload"
    /\ sent.status = 200
    /\ now = 2
    /\ DOMAIN pdfCache = {sent.body.pdf_id}
    /\ pdfCache[sent.body.pdf_id].fileInfo.path = sent.path
    /\ pdfCache[sent.body.pdf_id].indexedAt = 2
    /\ pdfCache[sent.body.pdf_id].mlApiResponse.chunks = 2

\* an identifier or a question that is missing, or empty once trimmed
Blank(s) == s = undefined \/ trim(s) = ""

\* C11 (as claimed): a query whose identifier or question is missing or empty
\* once trimmed is answered 400 without a call to the ML API (a blank
\* identifier included: 400, not 404).
C11_BlankInputIsRejected ==
    (sent.kind = "query" /\ (Blank(sent.pdf_id) \/ Blank(sent.question)))
        => (sent.status = 400 /\ ~sent.called)

\* C12 (as claimed): an upload without a file, or with a file that the file
\* filter or the handler's PDF check turns down, is answered with a status of
\* the 4xx class; a 5xx status is given only to uploads that reached the
\* index call.
C12_BadFileIsClientError ==
    /\ (sent.kind = "upload" /\ (sent.file = NoFile \/ sent.file \in Refused \cup Unsupported))
          => sent.status \in 400..499
    /\ (sent.kind = "upload" /\ sent.status >= 500) => sent.called

\* what a failed call reports: the error message of the ML API's body when
\* the failure response has one, the transport text otherwise
Reported(ml) ==
    IF ml.error.t = "string" /\ ml.error.v # "" THEN ml.error.v ELSE ml.message

\* C13: when the index call or the query call of a request fails, the
\* handler answers 500 in the same run, with a message that contains what the
\* ML API reported (or the transport text when it reported nothing) and that
\* is the message of the client function's Error as it is; the request makes
\* no further call (the number of requests awaiting the ML API drops by one).
C13_UpstreamErrorSurfaces ==
    [][ (sent'.kind \in {"upload", "query"} /\ sent'.called /\ ~sent'.ml.ok)
          => /\ sent'.status = 500
             /\ includes(sent'.body.error, Reported(sent'.ml))
             /\ sent'.body.error =
                  (IF sent'.kind = "upload"
                   THEN uploadPDFToMLAPI([path |-> sent'.path], sent'.ml).message
                   ELSE queryPDFFromMLAPI(sent'.pdf_id, sent'.question,
                                          sent'.ml).message)
             /\ Pending' = Pending - 1 ]_vars

\* C13 witness: the query call failed with a message of the ML API and the
\* query answered 500 with it.
C13_Witness ==
    /\ sent.kind = "query"
    /\ sent.called
    /\ ~sent.ml.ok
    /\ Truthy(sent.ml.error)
    /\ sent.status = 500
    /\ sent.body.error = "ML API query failed: model overloaded"

\* C17: a 200 upload response carries the identifier of the index call this
\* same request made, and the fixed confirmation message (the check mark
\* that leads the text in the source is left out of the model).
C17_OwnIdentifierFixedMessage ==
    (sent.kind = "upload" /\ sent.status = 200)
        => /\ sent.called
           /\ ~NoIdentifier(sent.ml)
           /\ sent.body.pdf_id = sent.ml.data.pdf_id.v
           /\ sent.body.message = "PDF uploaded & indexed"

\* C17 witness: an upload answers 200 with doc2, the only identifier cached,
\* while another upload is still awaiting its index call.
C17_Witness ==
    /\ sent.kind = "upload"
    /\ sent.status = 200
    /\ sent.body.pdf_id = "doc2"
    /\ indexing # {}
    /\ DOMAIN pdfCache = {"doc2"}

\* C18: whatever the file system does with the unlink, an upload that
\* reached the index call ends as it ends when the unlink succeeds: the same
\* status, the same body, the same cache.  In particular, with the unlink
\* refused, an index call that carried an identifier ends 200 with the record
\* cached, and one that failed or carried none ends 500 with an error that is
\* not the error of the unlink.
C18_CleanupFailureIsSilent ==
    [][ (sent'.kind = "upload" /\ sent'.called)
          => \E u \in indexing \ indexing' :
                LET clean == uploadResume(u.fileInfo, sent'.ml, pdfCache, disk,
                                          now + 1, TRUE)
                    refused == sent'.path \in disk'
                IN  /\ sent'.status = clean.status
                    /\ sent'.body = clean.body
                    /\ pdfCache' = clean.cache
                    /\ (refused /\ ~NoIdentifier(sent'.ml))
                          => /\ sent'.status = 200
                             /\ MapHas(pdfCache', sent'.body.pdf_id)
                    /\ (refused /\ NoIdentifier(sent'.ml))
                          => /\ sent'.status = 500
                             /\ ~includes(sent'.body.error, "unlink") ]_vars

\* C18 witness: the index call succeeded, the unlink was refused (the staged
\* file is still there) and the upload answered 200 with the record cached.
C18_Witness ==
    /\ sent.kind = "upload"
    /\ sent.status = 200
    /\ sent.unlinks = 1
    /\ sent.path \in disk
    /\ MapHas(pdfCache, sent.body.pdf_id)

\* C20: no step removes a key from the session cache, and no query with a
\* non-empty question for an identifier that an index call has carried ends
\* in 404.
C20_CacheNeverShrinks ==
    [][ /\ DOMAIN pdfCache \subseteq DOMAIN pdfCache'
        /\ ( /\ sent'.kind = "query"
             /\ sent'.pdf_id \in indexed
             /\ GoodQuestion(sent'.question) ) => sent'.status # 404 ]_vars

\* C20 witness: with two identifiers cached, a chat request has been
\* answered.
C20_Witness ==
    /\ DOMAIN pdfCache = {"abc123", "doc2"}
    /\ sent.kind = "chat"
    /\ sent.status = 200

\* C16: against the stub, two answered query requests with the same
\* identifier and the same question text ended alike: the same status and
\* the same body, whatever was uploaded or asked in between.
C16_SameQuestionSameAnswer ==
    \A i, j \in DOMAIN log :
        ( /\ log[i].pdf_id = log[j].pdf_id
          /\ log[i].question = log[j].question
          /\ log[i].status # 0
          /\ log[j].status # 0 )
        => (log[i].status = log[j].status /\ log[i].body = log[j].body)

\* C16 witness: the same question was asked twice of the same identifier,
\* before and after a second upload overwrote its record, and both requests
\* were answered 200.
C16_Witness ==
    /\ Len(log) >= 2
    /\ log[1].pdf_id = log[2].pdf_id
    /\ log[1].question = log[2].question
    /\ log[1].cachedAt = 1
    /\ log[2].cachedAt = 2
    /\ log[1].status = 200
    /\ log[2].status = 200

\* C19: against the stub, the step in which a query request gets its outcome
\* gives it the outcome of its own call (500 when the stub fails on its
\* question, 200 with the stub's text otherwise), whatever the order of the
\* returns; it leaves the other requests as they were, waiting or answered,
\* and it leaves the cache as it was.
C19_ConcurrentQueriesIndependent ==
    [][ \A n \in DOMAIN log :
          (log[n].status = 0 /\ log'[n].status # 0)
          => LET form == [pdf_id |-> log[n].pdf_id,
                          question |-> trim(log[n].question)]
             IN  /\ IF form.question = "Q2"
                    THEN log'[n].status = 500
                    ELSE /\ log'[n].status = 200
                         /\ log'[n].body.answer.answer = Str(StubText(form))
                 /\ \A m \in DOMAIN log \ {n} : log'[m] = log[m]
                 /\ BagCardinality(querying') = BagCardinality(querying) - 1
                 /\ pdfCache' = pdfCache ]_vars

\* C19 witness: two requests for the same identifier were in flight
\* together; the second has come back first, failed, and the first is still
\* waiting.
C19_Witness ==
    /\ Len(log) = 2
    /\ log[1].pdf_id = log[2].pdf_id
    /\ log[1].status = 0
    /\ log[2].status = 500
    /\ BagCardinality(querying) = 1

\* a question that is not empty once trimmed
NotBlank(s) == ~Blank(s)

\* C14: when analyzeDocument has caught the rejection of a query, that query
\* was the one for the k-th non-empty question, k - 1 answers having been
\* collected; the function has thrown that rejection as it is, so no answer
\* reaches the caller; the failed query is the last request issued, and no
\* request is awaiting an answer.
C14_BatchAbortsOnFailure ==
    (batch.pc # "none" /\ batch.failed.kind = "query")
        => LET asked == SelectSeq(batch.questionArray, NotBlank)
               k == Len(batch.answers) + 1
           IN  /\ batch.pc = "threw"
               /\ batch.outcome = [threw |-> TRUE, error |-> HttpFailure(batch.failed)]
               /\ k <= Len(asked)
               /\ batch.failed = queryForm(batch.pdf_id, trim(asked[k]))
               /\ Len(batch.issued) = k + 1
               /\ batch.issued[k + 1] = batch.failed
               /\ batch.inflight = {}

\* C14 witness: of three non-empty questions the second one failed, after
\* the first was answered.
C14_Witness ==
    /\ batch.pc = "threw"
    /\ batch.failed.kind = "query"
    /\ Len(batch.answers) = 1
    /\ Len(SelectSeq(batch.questionArray, NotBlank)) = 3

\* C15: the requests analyzeDocument has issued are one upload, then, once
\* that upload has been answered with an identifier, queries for that
\* identifier with the trimmed texts of the non-empty questions, in their
\* order, as far as it got; at most one request awaits its answer; and when
\* the function returns, it has asked every non-empty question and its i-th
\* answer is the server's answer to the i-th of them.
C15_BatchIsSequential ==
    batch.pc # "none"
        => LET asked == SelectSeq(batch.questionArray, NotBlank)
               n == Len(batch.issued) - 1
           IN  /\ batch.issued[1] = uploadForm(batch.file)
               /\ Cardinality(batch.inflight) <= 1
               /\ batch.pc = "uploading" => n = 0
               /\ n <= Len(asked)
               /\ \A i \in 1..n :
                     batch.issued[i + 1] = queryForm(batch.pdf_id, trim(asked[i]))
               /\ n > 0 => batch.pdf_id \in Ids
               /\ batch.pc = "returned"
                     => /\ n = Len(asked)
                        /\ batch.outcome.value.response.answers =
                              [i \in 1..n |->
                                 [answer |-> StubText(queryForm(batch.pdf_id,
                                                                trim(asked[i])))]]

\* C15 witness: the function has returned two answers for an array that
\* holds a blank entry between two questions, one of which needed trimming.
C15_Witness ==
    /\ batch.pc = "returned"
    /\ batch.questionArray = <<"Q1", " ", " Q2 ">>
    /\ Len(batch.outcome.value.response.answers) = 2
    /\ batch.pdf_id = "doc2"

\* C21 (as claimed): an upload of a file of more than 10 MB is answered 400
\* 'File too large'.
C21_TooLargeIsRejected ==
    (sent.kind = "upload" /\ sent.file.size > 10 * 1024 * 1024)
        => (sent.status = 400 /\ sent.body.error = "File too large")

\* C21 (amended): an upload of a file of more than 10 MB that the file
\* filter lets through is answered 400 'File too large'; no file of more
\* than 10 MB, whatever its type, reaches the index call or a record of the
\* cache, and none is answered 200.
C21_TooLargeAllowedTypeIsRejected ==
    /\ (sent.kind = "upload" /\ sent.file.size > 10 * 1024 * 1024)
          => /\ ~sent.called
             /\ sent.status # 200
             /\ fileFilter(sent.file)
                   => (sent.status = 400 /\ sent.body.error = "File too large")
    /\ \A u \in indexing : u.fileInfo.size <= 10 * 1024 * 1024
    /\ \A id \in DOMAIN pdfCache : pdfCache[id].fileInfo.size <= 10 * 1024 * 1024

\* C21 witness: with a document cached, a PDF of 10 MB and one byte is
\* answered 400 'File too large' and nothing of it is left in ./uploads.
C21_Witness ==
    /\ pdfCache # EmptyMap
    /\ sent.kind = "upload"
    /\ sent.file = File("policy.pdf", "application/pdf", 10 * 1024 * 1024 + 1)
    /\ sent.status = 400
    /\ sent.body.error = "File too large"
    /\ disk = {}

\* C22: a document is Indexed when its identifier is a key of the cache.
\* In every step: an identifier that is Indexed stays Indexed; an identifier
\* becomes Indexed only in the step in which an index call returns success
\* carrying it; a query with a non-empty question for an identifier that is
\* not Indexed is answered 404 without a call to the ML API, uploads in
\* flight or not; an upload that is not answered 200 leaves the cache as it
\* was, so that nothing but identifiers of indexed documents is ever a key.
C22_DocumentLifecycle ==
    [][ /\ \A id \in PdfIdInputs \ {undefined} :
              /\ MapHas(pdfCache, id) => MapHas(pdfCache', id)
              /\ (~MapHas(pdfCache, id) /\ MapHas(pdfCache', id))
                    => /\ sent'.kind = "upload"
                       /\ sent'.called
                       /\ ~NoIdentifier(sent'.ml)
                       /\ sent'.ml.data.pdf_id.v = id
                       /\ indexing' # indexing
              /\ ( /\ ~MapHas(pdfCache, id)
                   /\ sent'.kind = "query"
                   /\ sent'.pdf_id = id
                   /\ GoodQuestion(sent'.question) )
                    => /\ sent'.status = 404
                       /\ ~sent'.called
                       /\ querying' = querying
        /\ \A q \in BagToSet(querying') : MapHas(pdfCache', q.pdf_id)
        /\ (sent'.kind = "upload" /\ sent'.status # 200) => pdfCache' = pdfCache
        /\ DOMAIN pdfCache' \subseteq Ids ]_vars

\* C22 witness: while an upload awaits its index call and nothing is cached,
\* a query for abc123 is answered 404.
C22_Witness ==
    /\ indexing # {}
    /\ pdfCache = EmptyMap
    /\ sent.kind = "query"
    /\ sent.pdf_id = "abc123"
    /\ sent.status = 404

\* C25: in the step in which the index call of an upload returns success
\* with an identifier, other uploads being in flight or not, the upload is
\* answered 200 and the record under the identifier is, field by field, the
\* record of this upload (its file, its index response, the time of this
\* write); the uploads still in flight stay as they were.
C25_LastReturnWins ==
    [][ \A u \in indexing \ indexing' :
          (sent'.kind = "upload" /\ sent'.called /\ ~NoIdentifier(sent'.ml))
          => LET id == sent'.ml.data.pdf_id.v
             IN  /\ sent'.status = 200
                 /\ pdfCache'[id].fileInfo = u.fileInfo
                 /\ pdfCache'[id].originalFilename = u.fileInfo.originalName
                 /\ pdfCache'[id].mlApiResponse = sent'.ml.data
                 /\ pdfCache'[id].indexedAt = now'
                 /\ now' > now
                 /\ indexing' = indexing \ {u} ]_vars

\* C25 witness: two uploads were in flight together and got the same
\* identifier; the one that arrived first returned last, and the record
\* cached is its record.
C25_Witness ==
    /\ sent.kind = "upload"
    /\ sent.status = 200
    /\ sent.path = "uploads/file-1.pdf"
    /\ seq = 2
    /\ indexing = {}
    /\ now = 2
    /\ Cardinality(DOMAIN pdfCache) = 1
    /\ pdfCache[sent.body.pdf_id].fileInfo.path = "uploads/file-1.pdf"

\* C26: a step that answers a query, or that takes a query up to its call
\* of the ML API, leaves the cache as it was.
C26_QueryLeavesCache ==
    [][ (sent'.kind = "query" \/ querying' # querying) => pdfCache' = pdfCache ]_vars

\* C26 witness: with a document cached, a query whose call the ML API
\* answered with a body the handler cannot read has been answered 500.
C26_Witness ==
    /\ pdfCache # EmptyMap
    /\ sent.kind = "query"
    /\ sent.called
    /\ sent.ml.ok
    /\ sent.status = 500

\* C23: a successful upload does its work in the order index call returns,
\* cache tested and written, staged file deleted, response sent; whenever a
\* success response has been sent the identifier is in the cache; and the
\* write has happened whether or not the deletion succeeds.
SuccessOrder == <<"return", "has", "set", "unlink", "json">>

IsPrefix(p, q) == Len(p) <= Len(q) /\ \A i \in DOMAIN p : p[i] = q[i]

C23_SuccessOrder ==
    \A n \in DOMAIN handlers.reqs :
        LET r == handlers.reqs[n]
        IN  r.kind = "upload" =>
              /\ (r.trace # <<>> /\ r.trace[1] = "return" /\ r.err = ""
                    => IsPrefix(r.trace, SuccessOrder))
              /\ (r.status = 200 =>
                    /\ r.trace = SuccessOrder
                    /\ MapHas(pdfCache, keyOf(r.pdfId)))
              /\ ("unlink" \in Range(r.trace) /\ r.err = ""
                    => MapHas(pdfCache, keyOf(r.pdfId)))

\* a success response was sent although the staged file could not be deleted
C23_Witness ==
    \E n \in DOMAIN handlers.reqs :
        /\ handlers.reqs[n].kind = "upload"
        /\ handlers.reqs[n].status = 200
        /\ handlers.reqs[n].responses = 1
        /\ handlers.reqs[n].path \in disk
        /\ MapHas(pdfCache, "abc123")

\* C24: no request is waiting for the ML API between its test of the cache
\* and its use of the key (the read of a query, the write of an upload): a
\* request that has tested and not yet used the key is the one running, and
\* a query that passed the test reads a defined record.
C24_CacheAccessIsAtomic ==
    \A n \in DOMAIN handlers.reqs :
        LET r == handlers.reqs[n]
        IN  /\ r.open => handlers.running = n /\ ~r.awaiting
            /\ r.awaiting => ~r.open
            /\ "get" \in Range(r.trace) =>
                  /\ r.cachedPDF # Undef
                  /\ "has" \in Range(r.trace)

\* a query has tested for the record an upload wrote, has read it, and now
\* waits for the ML API
C24_Witness ==
    \E n, m \in DOMAIN handlers.reqs :
        /\ handlers.reqs[n].kind = "query"
        /\ handlers.reqs[n].awaiting
        /\ handlers.reqs[n].trace = <<"has", "get">>
        /\ handlers.reqs[n].cachedPDF = pdfCache[handlers.reqs[n].pdf_id]
        /\ handlers.reqs[m].kind = "upload"
        /\ "set" \in Range(handlers.reqs[m].trace)

\* C27: a request that reaches its handler never sends a second response,
\* has sent exactly one when its handler ends, and, the calls of the ML
\* API returning, its handler does end; an early rejection ends it.
C27_ExactlyOneResponse ==
    /\ [](\A n \in DOMAIN handlers.reqs :
            LET r == handlers.reqs[n]
            IN  /\ r.responses <= 1
                /\ r.pc = "end" => r.responses = 1
                /\ r.status \in {400, 404} => r.pc = "end")
    /\ \A n \in 1..MaxHandlers :
          [](n \in DOMAIN handlers.reqs
               => <>(/\ n \in DOMAIN handlers.reqs
                     /\ handlers.reqs[n].pc = "end"
                     /\ handlers.reqs[n].responses = 1))

\* an early rejection and a response after a call of the ML API, both ended
C27_Witness ==
    \E n, m \in DOMAIN handlers.reqs :
        /\ handlers.reqs[n].pc = "end"
        /\ handlers.reqs[n].status = 400
        /\ handlers.reqs[m].pc = "end"
        /\ handlers.reqs[m].status \in {200, 500}
        /\ "json" \in Range(handlers.reqs[m].trace)
        /\ Len(handlers.reqs[m].trace) > 1

\* C28: analyzeDocument called with no question that is non-empty after
\* trimming still uploads the document and has it indexed, issues no query
\* and returns success with an empty list of answers; and when a batch fails
\* on a question, the document its upload indexed is still in the cache of
\* the server.
C28_EmptyBatchAndNoRollback ==
    batch.pc # "none" =>
      /\ (\A j \in DOMAIN batch.questionArray : trim(batch.questionArray[j]) = "")
           => /\ batch.issued = <<uploadForm(batch.file)>>
              /\ batch.pc = "threw" => batch.failed = uploadForm(batch.file)
              /\ batch.pc \notin {"uploading", "threw"}
                   => /\ batch.pc = "returned"
                      /\ ~batch.outcome.threw
                      /\ batch.outcome.value.success
                      /\ batch.outcome.value.response.answers = <<>>
                      /\ MapHas(pdfCache, batch.pdf_id)
      /\ batch.pc = "threw" /\ batch.failed.kind = "query"
           => /\ MapHas(pdfCache, batch.pdf_id)
              /\ pdfCache[batch.pdf_id].originalFilename = batch.file.name

\* the batch has thrown on its second question and the document is cached
C28_Witness ==
    /\ batch.pc = "threw"
    /\ batch.failed.kind = "query"
    /\ Len(batch.answers) = 1
    /\ MapHas(pdfCache, batch.pdf_id)
    /\ sent = NoResponse

\* C29: a send of the chat component with a selected file uploads it, and
\* asks the new identifier when text was entered; without a file and with a
\* current document it asks that document; otherwise it goes to the generic
\* chat.  The current identifier changes only when an upload succeeds or
\* Clear is pressed, so a failed upload or query leaves it as it was, and
\* after Clear a send of text goes to the generic chat until an upload
\* succeeds again.
C29_SendIsRoutedByState ==
    [][ui.mounted =>
         LET r == ui'.requests[Len(ui'.requests)]
             begun == Len(ui'.requests) > Len(ui.requests)
             uploaded == /\ ui'.last.ev = "answer"
                         /\ ui'.last.kind = "upload"
                         /\ ui'.last.ok
         IN  /\ begun /\ r.by = "handleSend" =>
                   /\ ui.selectedFile # Null => r.kind = "upload"
                   /\ ui.selectedFile = Null /\ ui.currentPdfId # Null =>
                         r.kind = "query" /\ r.pdf_id = ui.currentPdfId.v
                   /\ ui.selectedFile = Null /\ ui.currentPdfId = Null =>
                         r.kind = "chat"
                   /\ ui.selectedFile = Null /\ ui.cleared => r.kind = "chat"
             /\ begun /\ r.by = "processInput" =>
                   /\ uploaded
                   /\ r.kind = "query"
                   /\ r.pdf_id = ui'.currentPdfId.v
             /\ \A c \in ui.calls \ ui'.calls :
                   /\ ui.requests[c.n].kind = "upload"
                   /\ ui'.last.ok
                   /\ trim(c.input) # ""
                   => begun /\ r.kind = "query" /\ r.text = trim(c.input)
             /\ ui'.currentPdfId # ui.currentPdfId =>
                   \/ ui'.last.ev = "clear" /\ ui'.currentPdfId = Null
                   \/ uploaded /\ ui'.currentPdfId # Null]_vars

\* a document was uploaded, Clear was pressed, and the text sent after that
\* went to the generic chat
C29_Witness ==
    /\ ui.mounted
    /\ ui.cleared
    /\ ui.last.ev = "send"
    /\ Len(ui.requests) = 2
    /\ ui.requests[1].kind = "upload"
    /\ ui.requests[2].kind = "chat"
    /\ ui.requests[2].by = "handleSend"

\* C30: while isLoading is true no event of the user (send button, Enter,
\* voice transcription) starts a request to the backend, and when a send has
\* run to its end, whatever the outcome, isLoading is false and no file is
\* selected.
C30_OneRequestSequenceAtATime ==
    /\ [](ui.mounted =>
            \A i \in DOMAIN ui.requests :
                ui.requests[i].by \in {"handleSend", "handleVoiceTranscription"}
                    => ~ui.requests[i].loading)
    /\ [][/\ ui.mounted
          /\ ui' # ui
          /\ ui'.last.ev = "answer"
          /\ ui'.last.kind # "voice"
          /\ Len(ui'.requests) = Len(ui.requests)
          => ~ui'.isLoading /\ ui'.selectedFile = Null]_vars

====
